---------------------------- MODULE Spec2Model ----------------------------
(***************************************************************************)
(* Model of the inventory REST backend (backend/routes): the user, article *)
(* and report stores, the in-memory failed-login tracker and the request   *)
(* handlers that read and write them.                                      *)
(*                                                                         *)
(* Text values are sequences of one-character strings, so that strip(),    *)
(* upper(), lower() and title() are computed character by character.       *)
(***************************************************************************)
EXTENDS Integers, Sequences, FiniteSets, TLC

VARIABLES
    users,                  \* user store: id -> User row
    next_user_id,           \* autoincrement of the user table
    articles,               \* article store: id -> Article row
    next_article_id,        \* autoincrement of the article table
    reports,                \* report store: id -> Report row
    next_report_id,         \* autoincrement of the report table
    failed_login_attempts,  \* auth_routes.failed_login_attempts
    now,                    \* datetime.utcnow(), in seconds
    tokens,                 \* signed tokens the clients hold
    last,                   \* the last request and its response
    streak,                 \* history: each username's run of failed logins
    nreq                    \* number of store requests served so far

vars == <<users, next_user_id, articles, next_article_id, reports,
          next_report_id, failed_login_attempts, now, tokens, last, streak,
          nreq>>

-----------------------------------------------------------------------------
\* Bounds of the model

MaxArticles == 2
MaxUsers == 3
MaxReports == 2
MaxRequests == 3
MaxMixedRequests == 2
MaxStatusRequests == 2
MaxTokens == 2
MaxFailCount == 6

-----------------------------------------------------------------------------
\* Python str methods, over sequences of characters

LowerLetters == <<"a","b","c","d","e","f","g","h","i","j","k","l","m",
                  "n","o","p","q","r","s","t","u","v","w","x","y","z">>

UpperLetters == <<"A","B","C","D","E","F","G","H","I","J","K","L","M",
                  "N","O","P","Q","R","S","T","U","V","W","X","Y","Z">>

LowerSet == {LowerLetters[i] : i \in 1..26}

UpperSet == {UpperLetters[i] : i \in 1..26}

IsLower(c) == c \in LowerSet

IsUpper(c) == c \in UpperSet

ToUpper == [c \in LowerSet |-> UpperLetters[CHOOSE i \in 1..26 : LowerLetters[i] = c]]

ToLower == [c \in UpperSet |-> LowerLetters[CHOOSE i \in 1..26 : UpperLetters[i] = c]]

IsCased(c) == IsLower(c) \/ IsUpper(c)

IsSpace(c) == c = " "

char_upper(c) == IF IsLower(c) THEN ToUpper[c] ELSE c

char_lower(c) == IF IsUpper(c) THEN ToLower[c] ELSE c

str_upper(s) == [i \in 1..Len(s) |-> char_upper(s[i])]

str_lower(s) == [i \in 1..Len(s) |-> char_lower(s[i])]

\* str.title(): a cased character is uppercased when it follows an uncased
\* one (or starts the string) and lowercased otherwise
str_title(s) ==
    [i \in 1..Len(s) |->
        IF i = 1 \/ ~IsCased(s[i-1]) THEN char_upper(s[i]) ELSE char_lower(s[i])]

RECURSIVE str_lstrip(_)
str_lstrip(s) ==
    IF s # <<>> /\ IsSpace(Head(s)) THEN str_lstrip(Tail(s)) ELSE s

RECURSIVE str_rstrip(_)
str_rstrip(s) ==
    IF s # <<>> /\ IsSpace(s[Len(s)])
    THEN str_rstrip(SubSeq(s, 1, Len(s) - 1))
    ELSE s

str_strip(s) == str_rstrip(str_lstrip(s))

\* sub in s
str_contains(sub, s) ==
    \E i \in 0..(Len(s) - Len(sub)) : SubSeq(s, i + 1, i + Len(sub)) = sub

\* SQL LIKE: "_" matches one character, "%" any run of characters
RECURSIVE sql_like(_, _)
sql_like(s, pat) ==
    IF pat = <<>> THEN s = <<>>
    ELSE IF Head(pat) = "%"
         THEN sql_like(s, Tail(pat)) \/ (s # <<>> /\ sql_like(Tail(s), pat))
    ELSE s # <<>>
         /\ (Head(pat) = "_" \/ Head(pat) = Head(s))
         /\ sql_like(Tail(s), Tail(pat))

\* column.ilike(pattern)
sql_ilike(s, pat) == sql_like(str_lower(s), str_lower(pat))

-----------------------------------------------------------------------------
\* JSON payloads: a function from the keys present to their values

\* JSON null / Python None, where a text value is expected
None == <<"None">>

\* a JSON value that is not a string (a number where text is expected)
NonStr == <<"NonStr">>

Has(data, k) == k \in DOMAIN data

\* data.get(k)
Get(data, k) == IF Has(data, k) THEN data[k] ELSE None

\* data.get(k, dflt)
GetOr(data, k, dflt) == IF Has(data, k) THEN data[k] ELSE dflt

\* truth value of a text value
Truthy(v) == v # None /\ v # <<>>

\* the value has str methods
IsStr(v) == v # None /\ v # NonStr

\* the last request and its response (username: the one a login named; keys:
\* the keys of the payload of an accepted article update)
Resp(op, caller, id, status, err) ==
    [op |-> op, caller |-> caller, id |-> id, status |-> status, err |-> err,
     username |-> <<>>, keys |-> {}]

NoCaller == [kind |-> "none", user_id |-> 0, username |-> <<>>,
             role |-> <<>>, exp |-> 0]


-----------------------------------------------------------------------------
\* datetime.strptime(s, "%Y-%m-%d").date()

Digits == <<"0","1","2","3","4","5","6","7","8","9">>

IsDigit(c) == \E i \in 1..10 : Digits[i] = c

DigitVal(c) == (CHOOSE i \in 1..10 : Digits[i] = c) - 1

AllDigits(s) == \A i \in 1..Len(s) : IsDigit(s[i])

RECURSIVE NumVal(_)
NumVal(s) ==
    IF s = <<>> THEN 0
    ELSE 10 * NumVal(SubSeq(s, 1, Len(s) - 1)) + DigitVal(s[Len(s)])

IsLeap(y) == (y % 4 = 0 /\ y % 100 # 0) \/ y % 400 = 0

DaysInMonth(y, m) ==
    IF m = 2 THEN (IF IsLeap(y) THEN 29 ELSE 28)
    ELSE IF m \in {4, 6, 9, 11} THEN 30 ELSE 31

TwoDigits(n) == <<Digits[(n \div 10) + 1], Digits[(n % 10) + 1]>>

\* the parsed date in ISO form, or None where strptime raises ValueError:
\* %Y is four digits, %m and %d are one or two digits
parse_date(s) ==
    LET n == Len(s)
        ml == IF n >= 7 /\ s[7] = "-" THEN 1 ELSE 2
        dl == n - (6 + ml)
    IN  IF /\ n >= 8
           /\ dl \in {1, 2}
           /\ AllDigits(SubSeq(s, 1, 4))
           /\ s[5] = "-"
           /\ AllDigits(SubSeq(s, 6, 5 + ml))
           /\ s[6 + ml] = "-"
           /\ AllDigits(SubSeq(s, 7 + ml, n))
        THEN LET y == NumVal(SubSeq(s, 1, 4))
                 m == NumVal(SubSeq(s, 6, 5 + ml))
                 d == NumVal(SubSeq(s, 7 + ml, n))
             IN  IF y >= 1 /\ m \in 1..12 /\ d >= 1 /\ d <= DaysInMonth(y, m)
                 THEN SubSeq(s, 1, 4) \o <<"-">> \o TwoDigits(m)
                      \o <<"-">> \o TwoDigits(d)
                 ELSE None
        ELSE None

-----------------------------------------------------------------------------
\* Articles (article_routes.py)

\* the store with row a added or replaced
PutRow(store, a) ==
    [i \in DOMAIN store \cup {a.id} |-> IF i = a.id THEN a ELSE store[i]]

\* the store without row id
DropRow(store, id) == [i \in DOMAIN store \ {id} |-> store[i]]

\* what an uncommitted session leaves in the store: nothing. The session is
\* rolled back by the handler's except branch or removed with the request.
Discarded(store, run) == store

\* what the request leaves in the store: the session's rows when the handler
\* reached db.session.commit(), else what the discarded session leaves
Persisted(store, run) == IF run.commit THEN run.session ELSE Discarded(store, run)

\* validate_article_data: the list of error messages
validate_article_data(data) ==
    (IF ~Truthy(Get(data, "code")) THEN <<"code_required">>
     ELSE IF Len(str_strip(GetOr(data, "code", <<>>))) < 3
          THEN <<"code_short">> ELSE <<>>)
    \o
    (IF ~Truthy(Get(data, "name")) THEN <<"name_required">>
     ELSE IF Len(str_strip(GetOr(data, "name", <<>>))) < 3
          THEN <<"name_short">> ELSE <<>>)
    \o
    (IF Has(data, "stock_min") /\ data["stock_min"] < 0
     THEN <<"stock_min_negative">> ELSE <<>>)
    \o
    (IF Has(data, "stock_current") /\ data["stock_current"] < 0
     THEN <<"stock_current_negative">> ELSE <<>>)

\* variant of normalize_code that forgets upper()
normalize_code_no_upper(code) == str_strip(code)

\* code = data.get("code").strip().upper()
normalize_code(code) == str_upper(str_strip(code))

\* name = data.get("name").strip().title()
normalize_name(name) == str_title(str_strip(name))

\* Article.query.filter_by(code=code).first() is not None
code_exists(arts, code) == \E i \in DOMAIN arts : arts[i].code = code

\* "herramienta" in data.get("tipo", "").lower()
is_herramienta(tipo) ==
    str_contains(<<"h","e","r","r","a","m","i","e","n","t","a">>, str_lower(tipo))

\* Article.query.filter(Article.name.ilike(name)).first() is not None
similar_name_exists(arts, name) ==
    \E i \in DOMAIN arts : sql_ilike(arts[i].name, name)

\* value.strip().title() if value else None
title_or_none(v) == IF Truthy(v) THEN str_title(str_strip(v)) ELSE None

\* the Article(...) row create_article builds
new_article(id, data, code, name, acquisition_date) ==
    [id |-> id,
     code |-> code,
     name |-> name,
     description |-> str_strip(GetOr(data, "description", <<>>)),
     tipo |-> Get(data, "tipo"),
     category |-> title_or_none(Get(data, "category")),
     unit |-> str_lower(str_strip(GetOr(data, "unit", <<"u","n","i","d","a","d">>))),
     stock_min |-> GetOr(data, "stock_min", 0),
     stock_current |-> GetOr(data, "stock_current", 0),
     location |-> title_or_none(Get(data, "location")),
     status |-> GetOr(data, "status", <<"F","U","N","C","I","O","N","A","N","D","O">>),
     acquisition_date |-> acquisition_date,
     observations |-> Get(data, "observations")]

Run(status, err, session, commit) ==
    [status |-> status, err |-> err, session |-> session, commit |-> commit]

\* POST /api/articles/
create_article_run(arts, new_id, data) ==
    LET errors == validate_article_data(data)
        code == normalize_code(Get(data, "code"))
        name == normalize_name(Get(data, "name"))
        tipo == str_lower(GetOr(data, "tipo", <<>>))
        raw_date == Get(data, "acquisition_date")
        acquisition_date == IF Truthy(raw_date) THEN parse_date(raw_date) ELSE None
    IN  IF errors # <<>> THEN Run(400, errors[1], arts, FALSE)
        ELSE IF code_exists(arts, code) THEN Run(400, "code_exists", arts, FALSE)
        ELSE IF is_herramienta(tipo) /\ similar_name_exists(arts, name)
             THEN Run(400, "similar_name", arts, FALSE)
        ELSE IF Truthy(raw_date) /\ acquisition_date = None
             THEN Run(400, "date_format", arts, FALSE)
        ELSE Run(201, "",
                 PutRow(arts, new_article(new_id, data, code, name, acquisition_date)),
                 TRUE)

\* the keys update_article looks at, in the order of its statements
UpdateOrder == <<"name", "description", "tipo", "category", "unit",
                 "stock_min", "stock_current", "location", "status",
                 "acquisition_date", "observations">>

\* the statement for key k raises (a str method on a value without it,
\* strptime on a value that is not a string)
update_raises(k, v) ==
    CASE k \in {"name", "description", "unit"} -> ~IsStr(v)
      [] k \in {"category", "location", "acquisition_date"} -> v = NonStr
      [] OTHER -> FALSE

\* the statement for key k returns 400
update_rejects(k, v) ==
    k = "acquisition_date" /\ Truthy(v) /\ parse_date(v) = None

\* variant of update_field whose stock_min statement also writes stock_current
update_field_stock_slip(a, k, v) ==
    CASE k = "name" -> [a EXCEPT !.name = str_title(str_strip(v))]
      [] k = "description" -> [a EXCEPT !.description = str_strip(v)]
      [] k = "tipo" -> [a EXCEPT !.tipo = v]
      [] k = "category" -> [a EXCEPT !.category = title_or_none(v)]
      [] k = "unit" -> [a EXCEPT !.unit = str_lower(str_strip(v))]
      [] k = "stock_min" -> [a EXCEPT !.stock_min = v, !.stock_current = v]
      [] k = "stock_current" -> [a EXCEPT !.stock_current = v]
      [] k = "location" -> [a EXCEPT !.location = title_or_none(v)]
      [] k = "status" -> [a EXCEPT !.status = v]
      [] k = "acquisition_date" ->
            [a EXCEPT !.acquisition_date = IF Truthy(v) THEN parse_date(v) ELSE None]
      [] k = "observations" -> [a EXCEPT !.observations = v]

\* the assignment update_article makes for key k
update_field(a, k, v) ==
    CASE k = "name" -> [a EXCEPT !.name = str_title(str_strip(v))]
      [] k = "description" -> [a EXCEPT !.description = str_strip(v)]
      [] k = "tipo" -> [a EXCEPT !.tipo = v]
      [] k = "category" -> [a EXCEPT !.category = title_or_none(v)]
      [] k = "unit" -> [a EXCEPT !.unit = str_lower(str_strip(v))]
      [] k = "stock_min" -> [a EXCEPT !.stock_min = v]
      [] k = "stock_current" -> [a EXCEPT !.stock_current = v]
      [] k = "location" -> [a EXCEPT !.location = title_or_none(v)]
      [] k = "status" -> [a EXCEPT !.status = v]
      [] k = "acquisition_date" ->
            [a EXCEPT !.acquisition_date = IF Truthy(v) THEN parse_date(v) ELSE None]
      [] k = "observations" -> [a EXCEPT !.observations = v]

\* the statements of update_article from the i-th key on, on session row a
RECURSIVE update_fields(_, _, _)
update_fields(a, data, i) ==
    IF i > Len(UpdateOrder) THEN [row |-> a, status |-> 200, err |-> ""]
    ELSE LET k == UpdateOrder[i]
         IN  IF ~Has(data, k) THEN update_fields(a, data, i + 1)
             ELSE IF update_raises(k, data[k])
                  THEN [row |-> a, status |-> 500, err |-> "exception"]
             ELSE IF update_rejects(k, data[k])
                  THEN [row |-> a, status |-> 400, err |-> "date_format"]
             ELSE update_fields(update_field(a, k, data[k]), data, i + 1)

\* variant of update_article_run that commits after every statement, so that
\* what was assigned before a rejected date is kept
update_article_run_eager_commit(arts, id, data) ==
    IF id \notin DOMAIN arts THEN Run(404, "not_found", arts, FALSE)
    ELSE LET r == update_fields(arts[id], data, 1)
         IN  Run(r.status, r.err, PutRow(arts, r.row), TRUE)

\* PUT /api/articles/{id}
update_article_run(arts, id, data) ==
    IF id \notin DOMAIN arts THEN Run(404, "not_found", arts, FALSE)
    ELSE LET r == update_fields(arts[id], data, 1)
         IN  Run(r.status, r.err, PutRow(arts, r.row), r.status = 200)

\* DELETE /api/articles/{id}
delete_article_run(arts, id) ==
    IF id \notin DOMAIN arts THEN Run(404, "not_found", arts, FALSE)
    ELSE Run(200, "", DropRow(arts, id), TRUE)


-----------------------------------------------------------------------------
\* Requests to the article routes

\* the fields every article request leaves alone
ArticleFrame ==
    UNCHANGED <<users, next_user_id, reports, next_report_id,
                failed_login_attempts, now, tokens, streak>>

create_article(data) ==
    /\ LET run == create_article_run(articles, next_article_id, data)
       IN  /\ run.status = 201 => next_article_id <= MaxArticles
           /\ articles' = Persisted(articles, run)
           /\ next_article_id' =
                IF run.status = 201 THEN next_article_id + 1 ELSE next_article_id
           /\ last' = Resp("create_article", NoCaller, 0, run.status, run.err)
    /\ nreq' = nreq + 1
    /\ ArticleFrame

update_article(id, data) ==
    /\ LET run == update_article_run(articles, id, data)
       IN  /\ articles' = Persisted(articles, run)
           /\ last' = [Resp("update_article", NoCaller, id, run.status, run.err)
                          EXCEPT !.keys = IF run.status = 200 THEN DOMAIN data ELSE {}]
    /\ nreq' = nreq + 1
    /\ UNCHANGED next_article_id
    /\ ArticleFrame

\* DELETE /api/articles/{id}. A report row references its article; whether the
\* database refuses to delete a referenced article (fk_enforced) or leaves the
\* reports pointing at a missing row depends on the schema, so both happen.
delete_article(id, fk_enforced) ==
    /\ LET referenced == \E r \in DOMAIN reports : reports[r].article_id = id
           run == IF referenced /\ fk_enforced /\ id \in DOMAIN articles
                  THEN Run(500, "exception", DropRow(articles, id), FALSE)
                  ELSE delete_article_run(articles, id)
       IN  /\ articles' = Persisted(articles, run)
           /\ last' = Resp("delete_article", NoCaller, id, run.status, run.err)
    /\ nreq' = nreq + 1
    /\ UNCHANGED next_article_id
    /\ ArticleFrame

-----------------------------------------------------------------------------
\* Request payloads the model draws from

C_P01sp == <<" ","p","-","0","1"," ">>
C_P01 == <<"P","-","0","1">>
C_p02 == <<"p","-","0","2">>
C_ab == <<"a","b"," ">>
N_pump == <<"p","u","m","p"," ","o","n","e">>
N_drill == <<"d","r","i","l","l">>
N_DRILL == <<" ","D","R","I","L","L">>
N_dr_ll == <<"d","r","_","l","l">>
T_herr == <<"H","e","r","r","a","m","i","e","n","t","a">>
T_maq == <<"m","a","q","u","i","n","a","r","i","a">>
D_ok == <<"2","0","2","4","-","0","2","-","2","9">>
D_short == <<"2","0","2","4","-","3","-","7">>
D_bad == <<"2","9","/","0","2","/","2","0","2","4">>
D_nodate == <<"2","0","2","3","-","0","2","-","2","9">>
V_cat == <<" ","b","o","m","b","a","s">>
V_loc == <<"p","a","t","i","o"," ","b">>
V_unit == <<" ","K","G">>
V_desc == <<" ","o","k"," ">>
V_status == <<"D","A","N","A","D","O">>
V_obs == <<"o","b","s">>

\* a function with one more key
With(data, k, v) == [x \in DOMAIN data \cup {k} |-> IF x = k THEN v ELSE data[x]]

Basic == [code |-> C_P01sp, name |-> N_pump]

CreateArticleInputs ==
    {[code |-> c, name |-> n, tipo |-> t] :
        c \in {C_P01sp, C_P01, C_p02}, n \in {N_drill, N_DRILL, N_pump},
        t \in {T_herr, T_maq}}
    \cup {Basic,
          [name |-> N_pump],
          [code |-> C_ab, name |-> N_pump],
          [code |-> C_p02],
          [code |-> C_p02, name |-> N_dr_ll, tipo |-> T_herr],
          With(Basic, "stock_min", 0 - 1),
          With(Basic, "stock_current", 0 - 1),
          With(With(Basic, "stock_min", 2), "stock_current", 5),
          With(Basic, "acquisition_date", D_ok),
          With(Basic, "acquisition_date", D_short),
          With(Basic, "acquisition_date", D_bad),
          With(Basic, "acquisition_date", D_nodate),
          [code |-> C_p02, name |-> N_drill, description |-> V_desc,
           tipo |-> T_maq, category |-> V_cat, unit |-> V_unit,
           stock_min |-> 1, stock_current |-> 3, location |-> V_loc,
           status |-> V_status, acquisition_date |-> D_ok,
           observations |-> V_obs]}

\* one value for every key an update may carry
FullUpdate ==
    [code |-> C_p02, name |-> N_DRILL, description |-> V_desc, tipo |-> T_herr,
     category |-> V_cat, unit |-> V_unit, stock_min |-> 4, stock_current |-> 7,
     location |-> V_loc, status |-> V_status, acquisition_date |-> D_short,
     observations |-> V_obs]

Restrict(f, K) == [x \in K |-> f[x]]

UpdateArticleInputs ==
    {Restrict(FullUpdate, K) : K \in {S \in SUBSET DOMAIN FullUpdate : Cardinality(S) <= 1}}
    \cup {FullUpdate,
          [category |-> <<>>],
          [stock_min |-> 0 - 1],
          [acquisition_date |-> <<>>],
          [acquisition_date |-> D_bad],
          [acquisition_date |-> NonStr],
          [name |-> N_pump, stock_min |-> 9, acquisition_date |-> D_bad],
          [unit |-> V_unit, acquisition_date |-> D_nodate, observations |-> V_obs],
          [name |-> NonStr],
          [name |-> N_pump, description |-> None]}


-----------------------------------------------------------------------------
\* Tokens (jwt.encode / jwt.decode with the shared secret)

ADMIN == <<"A","D","M","I","N">>
USER == <<"U","S","E","R">>
ACTIVO == <<"A","C","T","I","V","O">>
INACTIVO == <<"I","N","A","C","T","I","V","O">>

\* timedelta(hours=24), in seconds
TokenLifetime == 24 * 60 * 60

\* the token login signs for user u at time t
jwt_encode(u, t) ==
    [kind |-> "jwt", user_id |-> u.id, username |-> u.username,
     role |-> u.role, exp |-> t + TokenLifetime]

\* a header whose token does not verify
BadToken == [kind |-> "bad", user_id |-> 0, username |-> <<>>,
             role |-> <<>>, exp |-> 0]

\* jwt.decode succeeds: the signature verifies and exp is in the future
jwt_valid(tok, t) == tok.kind = "jwt" /\ tok.exp > t

\* what a request may carry in its Authorization header
Callers == {NoCaller, BadToken} \cup tokens

-----------------------------------------------------------------------------
\* Users (user_routes.py, auth_routes.py)

\* bcrypt.generate_password_hash(password)
generate_password_hash(password) == <<"$2b$">> \o password

\* bcrypt.check_password_hash(hash, password)
check_password_hash(hash, password) == hash = generate_password_hash(password)

\* User.query.filter_by(username=username).first(), as a set of ids
users_by_username(us, username) ==
    {i \in DOMAIN us : us[i].username = username}

\* User.query.filter_by(email=email).first(), as a set of ids
users_by_email(us, email) == {i \in DOMAIN us : us[i].email = email}

\* the status column of a new User row
UserDefaultStatus == ACTIVO

\* the User(...) row the creation handlers build
new_user(id, username, email, password, full_name, role) ==
    [id |-> id, username |-> username, email |-> email,
     password_hash |-> generate_password_hash(password),
     full_name |-> full_name, role |-> role, status |-> UserDefaultStatus,
     last_login |-> <<>>]

\* variant of verify_admin_token without the role test
verify_admin_token_any_role(caller, t) ==
    IF caller.kind = "none" THEN 401
    ELSE IF ~jwt_valid(caller, t) THEN 401
    ELSE 0

\* verify_admin_token: 0 when the caller passes, else the status returned
verify_admin_token(caller, t) ==
    IF caller.kind = "none" THEN 401
    ELSE IF ~jwt_valid(caller, t) THEN 401
    ELSE IF caller.role # ADMIN THEN 403
    ELSE 0

RequiredUserFields == <<"username", "email", "password", "full_name">>

\* the first required field that is missing or empty, or 0
missing_field(data) ==
    IF \E i \in 1..4 : ~Truthy(Get(data, RequiredUserFields[i]))
    THEN CHOOSE i \in 1..4 :
            /\ ~Truthy(Get(data, RequiredUserFields[i]))
            /\ \A j \in 1..(i - 1) : Truthy(Get(data, RequiredUserFields[j]))
    ELSE 0

\* username = data["username"].strip().lower()
normalize_login_name(v) == str_lower(str_strip(v))

\* POST /api/users/ after the admin gate
users_create_user_run(us, new_id, data) ==
    LET username == normalize_login_name(Get(data, "username"))
        email == normalize_login_name(Get(data, "email"))
    IN  IF missing_field(data) # 0
        THEN Run(400, RequiredUserFields[missing_field(data)], us, FALSE)
        ELSE IF users_by_username(us, username) # {}
             THEN Run(400, "username_exists", us, FALSE)
        ELSE IF users_by_email(us, email) # {}
             THEN Run(400, "email_exists", us, FALSE)
        ELSE IF Get(data, "role") = ADMIN
             THEN Run(403, "no_more_admins", us, FALSE)
        ELSE Run(201, "",
                 PutRow(us, new_user(new_id, username, email, data["password"],
                                     str_title(str_strip(data["full_name"])), USER)),
                 TRUE)

\* POST /api/auth/create-user after the admin gate
auth_create_user_run(us, new_id, data) ==
    IF missing_field(data) # 0
    THEN Run(400, RequiredUserFields[missing_field(data)], us, FALSE)
    ELSE IF users_by_username(us, data["username"]) # {}
         THEN Run(400, "username_exists", us, FALSE)
    ELSE IF users_by_email(us, data["email"]) # {}
         THEN Run(400, "email_exists", us, FALSE)
    ELSE Run(201, "",
             PutRow(us, new_user(new_id, data["username"], data["email"],
                                 data["password"], data["full_name"],
                                 GetOr(data, "role", USER))),
             TRUE)

\* variant of protects_main_admin with the role test inverted
protects_main_admin_inverted(user, data) ==
    user.id = 1 /\ Get(data, "role") = ADMIN

\* update_user refuses the request for the main administrator
protects_main_admin(user, data) == user.id = 1 /\ Get(data, "role") # ADMIN

\* update_user refuses to make another administrator
refuses_promotion(user, data) == Get(data, "role") = ADMIN /\ user.role # ADMIN

\* PUT /api/users/{id} after the admin gate
update_user_run(us, id, data) ==
    IF id \notin DOMAIN us THEN Run(404, "not_found", us, FALSE)
    ELSE IF protects_main_admin(us[id], data)
         THEN Run(400, "main_admin_role", us, FALSE)
    ELSE IF refuses_promotion(us[id], data)
         THEN Run(403, "no_more_admins", us, FALSE)
    ELSE
      LET u1 == IF Has(data, "full_name")
                THEN [us[id] EXCEPT !.full_name = str_title(str_strip(data["full_name"]))]
                ELSE us[id]
          new_email == normalize_login_name(Get(data, "email"))
          u2 == IF Has(data, "email") THEN [u1 EXCEPT !.email = new_email] ELSE u1
          u3 == IF Has(data, "role") THEN [u2 EXCEPT !.role = data["role"]] ELSE u2
          u4 == IF Truthy(Get(data, "password"))
                THEN [u3 EXCEPT !.password_hash = generate_password_hash(data["password"])]
                ELSE u3
      IN  IF Has(data, "full_name") /\ ~IsStr(data["full_name"])
          THEN Run(500, "exception", us, FALSE)
          ELSE IF Has(data, "email") /\ users_by_email(us, new_email) \ {id} # {}
               THEN Run(400, "email_in_use", PutRow(us, u1), FALSE)
          ELSE Run(200, "", PutRow(us, u4), TRUE)

\* variant of deactivate_user_run that deletes the row
deactivate_user_run_removes(us, id) ==
    IF id \notin DOMAIN us THEN Run(404, "not_found", us, FALSE)
    ELSE IF us[id].id = 1 THEN Run(400, "main_admin", us, FALSE)
    ELSE Run(200, "", DropRow(us, id), TRUE)

\* DELETE /api/users/{id} after the admin gate
deactivate_user_run(us, id) ==
    IF id \notin DOMAIN us THEN Run(404, "not_found", us, FALSE)
    ELSE IF us[id].id = 1 THEN Run(400, "main_admin", us, FALSE)
    ELSE Run(200, "", PutRow(us, [us[id] EXCEPT !.status = INACTIVO]), TRUE)

\* PUT /api/users/{id}/activate after the admin gate
activate_user_run(us, id) ==
    IF id \notin DOMAIN us THEN Run(404, "not_found", us, FALSE)
    ELSE Run(200, "", PutRow(us, [us[id] EXCEPT !.status = ACTIVO]), TRUE)

\* a handler behind verify_admin_token: the gate's answer, or the handler's
Gated(caller, us, run) ==
    LET gate == verify_admin_token(caller, now)
    IN  IF gate # 0 THEN Run(gate, "gate", us, FALSE) ELSE run

UserFrame ==
    UNCHANGED <<articles, next_article_id, reports, next_report_id,
                failed_login_attempts, now, tokens, streak>>

CreatesUser(run) == run.status = 201

users_create_user(caller, data) ==
    /\ LET run == Gated(caller, users, users_create_user_run(users, next_user_id, data))
       IN  /\ CreatesUser(run) => next_user_id <= MaxUsers
           /\ users' = Persisted(users, run)
           /\ next_user_id' = IF CreatesUser(run) THEN next_user_id + 1 ELSE next_user_id
           /\ last' = Resp("users_create_user", caller, 0, run.status, run.err)
    /\ nreq' = nreq + 1
    /\ UserFrame

auth_create_user(caller, data) ==
    /\ LET run == Gated(caller, users, auth_create_user_run(users, next_user_id, data))
       IN  /\ CreatesUser(run) => next_user_id <= MaxUsers
           /\ users' = Persisted(users, run)
           /\ next_user_id' = IF CreatesUser(run) THEN next_user_id + 1 ELSE next_user_id
           /\ last' = Resp("auth_create_user", caller, 0, run.status, run.err)
    /\ nreq' = nreq + 1
    /\ UserFrame

update_user(caller, id, data) ==
    /\ LET run == Gated(caller, users, update_user_run(users, id, data))
       IN  /\ users' = Persisted(users, run)
           /\ last' = Resp("update_user", caller, id, run.status, run.err)
    /\ nreq' = nreq + 1
    /\ UNCHANGED next_user_id
    /\ UserFrame

deactivate_user(caller, id) ==
    /\ LET run == Gated(caller, users, deactivate_user_run(users, id))
       IN  /\ users' = Persisted(users, run)
           /\ last' = Resp("deactivate_user", caller, id, run.status, run.err)
    /\ nreq' = nreq + 1
    /\ UNCHANGED next_user_id
    /\ UserFrame

activate_user(caller, id) ==
    /\ LET run == Gated(caller, users, activate_user_run(users, id))
       IN  /\ users' = Persisted(users, run)
           /\ last' = Resp("activate_user", caller, id, run.status, run.err)
    /\ nreq' = nreq + 1
    /\ UNCHANGED next_user_id
    /\ UserFrame


-----------------------------------------------------------------------------
\* Login and the failed-attempt tracker (auth_routes.py)

\* length of the lockout window, in seconds
LockWindow == 900

\* failed attempts that lock a username
LockThreshold == 5

\* timedelta.seconds of a non-negative difference: the seconds within the day
td_seconds(d) == d % (24 * 60 * 60)

\* track_failed_login: the dictionary afterwards and the count returned.
\* After the window test replaces the entry, the increment still goes to the
\* entry read before it.
track_failed_login(fla, username, t) ==
    LET fla1 == IF username \in DOMAIN fla THEN fla
                ELSE [u \in DOMAIN fla \cup {username} |->
                        IF u = username THEN [count |-> 0, timestamp |-> t]
                        ELSE fla[u]]
        attempts == fla1[username]
    IN  IF td_seconds(t - attempts.timestamp) > LockWindow
        THEN [fla |-> [fla1 EXCEPT ![username] = [count |-> 0, timestamp |-> t]],
              count |-> attempts.count + 1]
        ELSE [fla |-> [fla1 EXCEPT ![username].count = attempts.count + 1],
              count |-> attempts.count + 1]

\* variant of is_account_locked that needs one more failure
is_account_locked_one_late(fla, username, t) ==
    /\ username \in DOMAIN fla
    /\ fla[username].count > LockThreshold
    /\ td_seconds(t - fla[username].timestamp) < LockWindow

\* is_account_locked
is_account_locked(fla, username, t) ==
    /\ username \in DOMAIN fla
    /\ fla[username].count >= LockThreshold
    /\ td_seconds(t - fla[username].timestamp) < LockWindow

\* the status login answers a wrong password with, given the count returned
wrong_password_status(attempt_count) ==
    IF attempt_count >= LockThreshold THEN 429 ELSE 401

\* the status login answers an unknown username with, given the count returned
unknown_user_status(attempt_count) == 401

\* variant of login_run without the test of the user's status
login_run_skips_status(us, fla, t, data) ==
    LET username == Get(data, "username")
        found == users_by_username(us, username)
        user == us[CHOOSE i \in found : TRUE]
        tracked == track_failed_login(fla, username, t)
        out(status, err, fla2, us2, tok) ==
            [status |-> status, err |-> err, fla |-> fla2, users |-> us2,
             token |-> tok]
    IN  IF ~Truthy(username) \/ ~Truthy(Get(data, "password"))
        THEN out(400, "required", fla, us, NoCaller)
        ELSE IF is_account_locked(fla, username, t)
             THEN out(429, "locked", fla, us, NoCaller)
        ELSE IF found = {}
             THEN out(unknown_user_status(tracked.count), "no_user",
                      tracked.fla, us, NoCaller)
        ELSE IF ~check_password_hash(user.password_hash, data["password"])
             THEN out(wrong_password_status(tracked.count), "wrong_password",
                      tracked.fla, us, NoCaller)
        ELSE out(200, "",
                 [u \in DOMAIN fla \ {username} |-> fla[u]],
                 PutRow(us, [user EXCEPT !.last_login = <<t>>]),
                 jwt_encode(user, t))

\* POST /api/auth/login: the response, the tracker, the user store and the
\* token issued (NoCaller when none is)
login_run(us, fla, t, data) ==
    LET username == Get(data, "username")
        found == users_by_username(us, username)
        user == us[CHOOSE i \in found : TRUE]
        tracked == track_failed_login(fla, username, t)
        out(status, err, fla2, us2, tok) ==
            [status |-> status, err |-> err, fla |-> fla2, users |-> us2,
             token |-> tok]
    IN  IF ~Truthy(username) \/ ~Truthy(Get(data, "password"))
        THEN out(400, "required", fla, us, NoCaller)
        ELSE IF is_account_locked(fla, username, t)
             THEN out(429, "locked", fla, us, NoCaller)
        ELSE IF found = {}
             THEN out(unknown_user_status(tracked.count), "no_user",
                      tracked.fla, us, NoCaller)
        ELSE IF ~check_password_hash(user.password_hash, data["password"])
             THEN out(wrong_password_status(tracked.count), "wrong_password",
                      tracked.fla, us, NoCaller)
        ELSE IF user.status # ACTIVO
             THEN out(403, "inactive", fla, us, NoCaller)
        ELSE out(200, "",
                 [u \in DOMAIN fla \ {username} |-> fla[u]],
                 PutRow(us, [user EXCEPT !.last_login = <<t>>]),
                 jwt_encode(user, t))

\* the client keeps the token it is given while it has room for one
keep_token(held, tok) ==
    IF tok.kind = "jwt" /\ Cardinality(held \cup {tok}) <= MaxTokens
    THEN held \cup {tok} ELSE held

\* The run of failed logins of a username as a client counts it: the number
\* of attempts answered as failed (or locked out) since the run started,
\* counted up to LockThreshold, and the time of the first; a run ends with a
\* successful login or once LockWindow seconds have passed since its first
\* attempt (Tick forgets the runs that have ended).
streak_after(hist, username, t, status) ==
    IF status = 200 THEN [u \in DOMAIN hist \ {username} |-> hist[u]]
    ELSE IF status \notin {401, 429} THEN hist
    ELSE LET fresh == username \notin DOMAIN hist
                      \/ t - hist[username].first >= LockWindow
             entry == IF fresh THEN [n |-> 1, first |-> t]
                      ELSE [hist[username] EXCEPT
                              !.n = IF @ < LockThreshold THEN @ + 1 ELSE @]
         IN  [u \in DOMAIN hist \cup {username} |->
                IF u = username THEN entry ELSE hist[u]]

\* a login request; keep says whether the client stores the token returned
login(data, keep) ==
    /\ LET r == login_run(users, failed_login_attempts, now, data)
       IN  /\ \A u \in DOMAIN r.fla : r.fla[u].count <= MaxFailCount
           /\ users' = r.users
           /\ failed_login_attempts' = r.fla
           /\ tokens' = IF keep THEN keep_token(tokens, r.token) ELSE tokens
           /\ last' = [Resp("login", r.token, 0, r.status, r.err)
                          EXCEPT !.username = Get(data, "username")]
           /\ streak' = streak_after(streak, Get(data, "username"), now, r.status)
    /\ UNCHANGED <<next_user_id, articles, next_article_id, reports,
                   next_report_id, now, nreq>>

\* the clock readings at which requests arrive: steps of TickSeconds from
\* the start, and the same one day later
MaxTicks == 2

TickSeconds == LockWindow \div 2

TimePoints ==
    {d * (24 * 60 * 60) + k * TickSeconds : d \in 0..1, k \in 0..MaxTicks}

\* time passes between two requests
Tick ==
    /\ \E t \in TimePoints : t > now /\ now' = t
    /\ streak' = [u \in {x \in DOMAIN streak : now' - streak[x].first < LockWindow}
                    |-> streak[u]]
    /\ UNCHANGED <<users, next_user_id, articles, next_article_id, reports,
                   next_report_id, failed_login_attempts, tokens, last, nreq>>

\* jwt.decode raises ExpiredSignatureError: the signature verifies and exp is
\* not in the future
jwt_expired(tok, t) == tok.kind = "jwt" /\ tok.exp <= t

\* variant of verify_run that does not look at exp
verify_run_ignores_exp(caller, us, t) ==
    IF caller.kind = "none" THEN [status |-> 401, err |-> "no_token"]
    ELSE IF caller.kind # "jwt" THEN [status |-> 401, err |-> "invalid"]
    ELSE IF caller.user_id \notin DOMAIN us
         THEN [status |-> 404, err |-> "no_user"]
    ELSE [status |-> 200, err |-> ""]

\* GET /api/auth/verify: the status and the error answered
verify_run(caller, us, t) ==
    IF caller.kind = "none" THEN [status |-> 401, err |-> "no_token"]
    ELSE IF jwt_expired(caller, t) THEN [status |-> 401, err |-> "expired"]
    ELSE IF ~jwt_valid(caller, t) THEN [status |-> 401, err |-> "invalid"]
    ELSE IF caller.user_id \notin DOMAIN us
         THEN [status |-> 404, err |-> "no_user"]
    ELSE [status |-> 200, err |-> ""]

verify(caller) ==
    /\ LET r == verify_run(caller, users, now)
       IN  last' = Resp("verify", caller, 0, r.status, r.err)
    /\ UNCHANGED <<users, next_user_id, articles, next_article_id, reports,
                   next_report_id, failed_login_attempts, now, tokens, streak,
                   nreq>>

-----------------------------------------------------------------------------
\* Reports (report_routes.py)

PENDIENTE == <<"P","E","N","D","I","E","N","T","E">>
EN_REVISION == <<"E","N","_","R","E","V","I","S","I","O","N">>
RESUELTO == <<"R","E","S","U","E","L","T","O">>
CERRADO == <<"C","E","R","R","A","D","O">>
FALLA == <<"F","A","L","L","A">>
MANTENIMIENTO == <<"M","A","N","T","E","N","I","M","I","E","N","T","O">>
OBSERVACION == <<"O","B","S","E","R","V","A","C","I","O","N">>
SOLICITUD == <<"S","O","L","I","C","I","T","U","D">>

valid_types == {FALLA, MANTENIMIENTO, OBSERVACION, SOLICITUD}

valid_statuses == {PENDIENTE, EN_REVISION, RESUELTO, CERRADO}

\* verify_token of report_routes: the ids of the user the token names
\* (empty when the header is absent, the token does not decode or the user
\* is gone)
verify_token(caller, us, t) ==
    IF caller.kind = "none" \/ ~jwt_valid(caller, t) THEN {}
    ELSE {caller.user_id} \cap DOMAIN us

\* token_required: 0 when the caller passes, else the status returned
token_required(caller, us, t) ==
    IF verify_token(caller, us, t) = {} THEN 401 ELSE 0

\* variant of admin_required that only asks for a valid token
admin_required_any_user(caller, us, t) ==
    IF verify_token(caller, us, t) = {} THEN 403 ELSE 0

\* admin_required: 0 when the caller passes, else the status returned
admin_required(caller, us, t) ==
    IF \A i \in verify_token(caller, us, t) : us[i].role # ADMIN THEN 403 ELSE 0

\* variant of create_report_check that validates the type before the article
create_report_check_type_first(arts, data) ==
    IF \/ GetOr(data, "article_id", 0) = 0
       \/ ~Truthy(Get(data, "report_type"))
       \/ ~Truthy(Get(data, "message"))
    THEN 400
    ELSE IF data["report_type"] \notin valid_types THEN 400
    ELSE IF data["article_id"] \notin DOMAIN arts THEN 404
    ELSE 0

\* the checks of create_report before the row is built: 0, or the status
create_report_check(arts, data) ==
    IF \/ GetOr(data, "article_id", 0) = 0
       \/ ~Truthy(Get(data, "report_type"))
       \/ ~Truthy(Get(data, "message"))
    THEN 400
    ELSE IF data["article_id"] \notin DOMAIN arts THEN 404
    ELSE IF data["report_type"] \notin valid_types THEN 400
    ELSE 0

\* POST /api/reports/ for current_user
create_report_run(reps, arts, new_id, current_user, data) ==
    LET check == create_report_check(arts, data)
    IN  IF check # 0
        THEN Run(check, IF check = 404 THEN "no_article" ELSE "invalid", reps, FALSE)
        ELSE IF ~IsStr(data["message"]) THEN Run(500, "exception", reps, FALSE)
        ELSE Run(201, "",
                 PutRow(reps, [id |-> new_id,
                               article_id |-> data["article_id"],
                               user_id |-> current_user,
                               report_type |-> data["report_type"],
                               message |-> str_strip(data["message"]),
                               status |-> PENDIENTE,
                               admin_response |-> None,
                               updated_at |-> <<>>]),
                 TRUE)

\* PUT /api/reports/{id} for an administrator
update_report_run(reps, id, data, t) ==
    IF id \notin DOMAIN reps THEN Run(404, "not_found", reps, FALSE)
    ELSE IF Has(data, "status") /\ data["status"] \notin valid_statuses
         THEN Run(400, "invalid_status", reps, FALSE)
    ELSE
      LET r1 == IF Has(data, "status")
                THEN [reps[id] EXCEPT !.status = data["status"]] ELSE reps[id]
          r2 == IF Has(data, "admin_response")
                THEN [r1 EXCEPT !.admin_response = str_strip(data["admin_response"])]
                ELSE r1
      IN  IF Has(data, "admin_response") /\ ~IsStr(data["admin_response"])
          THEN Run(500, "exception", PutRow(reps, r1), FALSE)
          ELSE Run(200, "", PutRow(reps, [r2 EXCEPT !.updated_at = <<t>>]), TRUE)

\* DELETE /api/reports/{id} for an administrator
delete_report_run(reps, id) ==
    IF id \notin DOMAIN reps THEN Run(404, "not_found", reps, FALSE)
    ELSE Run(200, "", DropRow(reps, id), TRUE)

ReportFrame ==
    UNCHANGED <<users, next_user_id, articles, next_article_id,
                failed_login_attempts, now, tokens, streak>>

create_report(caller, data) ==
    /\ LET gate == token_required(caller, users, now)
           run == IF gate # 0 THEN Run(gate, "gate", reports, FALSE)
                  ELSE create_report_run(reports, articles, next_report_id,
                                         caller.user_id, data)
       IN  /\ run.status = 201 => next_report_id <= MaxReports
           /\ reports' = Persisted(reports, run)
           /\ next_report_id' =
                IF run.status = 201 THEN next_report_id + 1 ELSE next_report_id
           /\ last' = Resp("create_report", caller, 0, run.status, run.err)
    /\ nreq' = nreq + 1
    /\ ReportFrame

update_report(caller, id, data) ==
    /\ LET gate == admin_required(caller, users, now)
           run == IF gate # 0 THEN Run(gate, "gate", reports, FALSE)
                  ELSE update_report_run(reports, id, data, now)
       IN  /\ reports' = Persisted(reports, run)
           /\ last' = Resp("update_report", caller, id, run.status, run.err)
    /\ nreq' = nreq + 1
    /\ UNCHANGED next_report_id
    /\ ReportFrame

delete_report(caller, id) ==
    /\ LET gate == admin_required(caller, users, now)
           run == IF gate # 0 THEN Run(gate, "gate", reports, FALSE)
                  ELSE delete_report_run(reports, id)
       IN  /\ reports' = Persisted(reports, run)
           /\ last' = Resp("delete_report", caller, id, run.status, run.err)
    /\ nreq' = nreq + 1
    /\ UNCHANGED next_report_id
    /\ ReportFrame


-----------------------------------------------------------------------------
\* User, login and report payloads the model draws from

U_admin == <<"a","d","m","i","n">>
U_bob == <<"b","o","b">>
U_BobSp == <<" ","B","o","b">>
U_ghost == <<"g","h","o","s","t">>
E_admin == <<"a","@","x">>
E_bob == <<"b","@","x">>
E_BobSp == <<"B","@","x"," ">>
E_eve == <<"e","@","x">>
P_admin == <<"a","d","m","i","n","1","2","3">>
P_bob == <<"p","w">>
P_wrong == <<"n","o">>
F_bob == <<"b","o","b"," ","r","o","e">>
F_new == <<" ","r","o","b","e","r","t">>
GUEST == <<"G","U","E","S","T">>
M_leak == <<" ","l","e","a","k"," ">>
R_done == <<" ","d","o","n","e">>

NewBob == [username |-> U_bob, email |-> E_bob, password |-> P_bob,
           full_name |-> F_bob]

CreateUserInputs ==
    {[username |-> u, email |-> e, password |-> P_bob, full_name |-> F_bob] :
        u \in {U_bob, U_BobSp, U_admin}, e \in {E_bob, E_BobSp, E_admin}}
    \cup {With(NewBob, "role", ADMIN),
          With(NewBob, "role", USER),
          With(NewBob, "role", GUEST),
          [username |-> U_bob, email |-> E_bob, password |-> P_bob],
          [email |-> E_bob, password |-> P_bob, full_name |-> F_bob],
          With(NewBob, "password", <<>>)}

UpdateUserInputs ==
    {[role |-> USER],
     [role |-> ADMIN],
     [role |-> GUEST],
     [full_name |-> F_new],
     [full_name |-> F_new, role |-> ADMIN],
     [email |-> E_eve],
     [email |-> E_eve, role |-> ADMIN],
     [full_name |-> F_new, email |-> E_admin],
     [full_name |-> F_new, email |-> E_BobSp, role |-> ADMIN],
     [password |-> P_wrong],
     [password |-> <<>>, role |-> ADMIN],
     [full_name |-> None, role |-> ADMIN],
     [status |-> INACTIVO, role |-> ADMIN],
     [status |-> INACTIVO]}

LoginInputs ==
    {[username |-> u, password |-> pw] :
        u \in {U_admin, U_ghost}, pw \in {P_admin, P_wrong}}
    \cup {[username |-> U_admin]}

\* the logins of the operator bob
AccountLogins ==
    {[username |-> U_bob, password |-> P_bob],
     [username |-> U_bob, password |-> P_wrong],
     [username |-> U_bob]}

\* the logins of clients that know their password
GoodLogins ==
    {[username |-> U_admin, password |-> P_admin],
     [username |-> U_bob, password |-> P_bob],
     [username |-> U_BobSp, password |-> P_bob]}

CreateReportInputs ==
    {[article_id |-> a, report_type |-> ty, message |-> M_leak] :
        a \in {1, 2, 9999}, ty \in {FALLA, SOLICITUD, str_lower(FALLA)}}
    \cup {[article_id |-> 1, report_type |-> FALLA],
          [article_id |-> 9999, message |-> M_leak],
          [article_id |-> 0, report_type |-> FALLA, message |-> M_leak],
          [report_type |-> FALLA, message |-> M_leak],
          [article_id |-> 1, report_type |-> FALLA, message |-> NonStr],
          [article_id |-> 9999, report_type |-> FALLA, message |-> NonStr]}

UpdateReportInputs ==
    {[status |-> st] : st \in valid_statuses \cup {str_lower(RESUELTO), None}}
    \cup {[admin_response |-> R_done],
          [status |-> RESUELTO, admin_response |-> R_done],
          [status |-> ACTIVO, admin_response |-> R_done],
          [status |-> CERRADO, admin_response |-> None],
          [admin_response |-> NonStr],
          [message |-> M_leak]}

-----------------------------------------------------------------------------
\* Initial states

\* the seeded administrator (user id 1)
AdminRow ==
    [id |-> 1, username |-> U_admin, email |-> E_admin,
     password_hash |-> generate_password_hash(P_admin),
     full_name |-> <<"A","d","m","i","n">>, role |-> ADMIN, status |-> ACTIVO,
     last_login |-> <<>>]

EmptyStore == [i \in {} |-> {}]

\* the state after start-up: the seeded administrator, nothing else
Init ==
    /\ users = PutRow(EmptyStore, AdminRow)
    /\ next_user_id = 2
    /\ articles = EmptyStore
    /\ next_article_id = 1
    /\ reports = EmptyStore
    /\ next_report_id = 1
    /\ failed_login_attempts = EmptyStore
    /\ now = 0
    /\ tokens = {}
    /\ last = Resp("init", NoCaller, 0, 0, "")
    /\ streak = EmptyStore
    /\ nreq = 0

\* a store in use: the administrator and the operator bob have logged in and
\* one article exists (the state Init reaches by login, POST /api/users/,
\* login and POST /api/articles/)
SeedAdminLogin ==
    login_run(PutRow(EmptyStore, AdminRow), EmptyStore, 0,
              [username |-> U_admin, password |-> P_admin])

SeedBobCreated == users_create_user_run(SeedAdminLogin.users, 2, NewBob).session

SeedBobLogin ==
    login_run(SeedBobCreated, EmptyStore, 0,
              [username |-> U_bob, password |-> P_bob])

InitSeeded ==
    /\ users = SeedBobLogin.users
    /\ next_user_id = 3
    /\ articles = create_article_run(EmptyStore, 1, Basic).session
    /\ next_article_id = 2
    /\ reports = EmptyStore
    /\ next_report_id = 1
    /\ failed_login_attempts = EmptyStore
    /\ now = 0
    /\ tokens = {SeedAdminLogin.token, SeedBobLogin.token}
    /\ last = Resp("init", NoCaller, 0, 0, "")
    /\ streak = EmptyStore
    /\ nreq = 0

-----------------------------------------------------------------------------
\* Specifications

\* Each specification serves a bounded number of store requests; a client
\* that knows its password may log in at any time and keeps the token.

NextArticles ==
    \/ \E data \in CreateArticleInputs : nreq < MaxRequests /\ create_article(data)
    \/ \E id \in 1..MaxArticles, data \in UpdateArticleInputs :
            nreq < MaxRequests /\ update_article(id, data)
    \/ \E id \in 1..MaxArticles, fk \in BOOLEAN : nreq < MaxRequests /\ delete_article(id, fk)

SpecArticles == Init /\ [][NextArticles]_vars

NextUsers ==
    \/ \E data \in GoodLogins :
            users_by_username(users, data["username"]) # {} /\ login(data, TRUE)
    \/ \E c \in Callers, data \in CreateUserInputs :
            nreq < MaxRequests /\ users_create_user(c, data)
    \/ \E c \in Callers, data \in CreateUserInputs :
            nreq < MaxRequests /\ auth_create_user(c, data)
    \/ \E c \in Callers, id \in 1..MaxUsers, data \in UpdateUserInputs :
            nreq < MaxRequests /\ update_user(c, id, data)
    \/ \E c \in Callers, id \in 1..MaxUsers : nreq < MaxRequests /\ deactivate_user(c, id)
    \/ \E c \in Callers, id \in 1..MaxUsers : nreq < MaxRequests /\ activate_user(c, id)

SpecUsers == Init /\ [][NextUsers]_vars

NextReports ==
    \/ \E c \in Callers, data \in CreateReportInputs :
            nreq < MaxRequests /\ create_report(c, data)
    \/ \E c \in Callers, id \in 1..MaxReports, data \in UpdateReportInputs :
            nreq < MaxRequests /\ update_report(c, id, data)
    \/ \E c \in Callers, id \in 1..MaxReports : nreq < MaxRequests /\ delete_report(c, id)
    \/ \E id \in 1..MaxArticles, fk \in BOOLEAN :
            nreq < MaxRequests /\ delete_article(id, fk)

SpecReports == InitSeeded /\ [][NextReports]_vars

NextAuth ==
    \/ \E data \in LoginInputs : login(data, FALSE)
    \/ Tick

SpecAuth == Init /\ [][NextAuth]_vars

\* clients log in, keep their tokens and present them as time passes
NextTokens ==
    \/ \E data \in GoodLogins :
            users_by_username(users, data["username"]) # {} /\ login(data, TRUE)
    \/ \E c \in Callers : verify(c)
    \/ Tick

SpecTokens == Init /\ [][NextTokens]_vars

\* operators log in with a right or a wrong password while administrators
\* deactivate and activate accounts and time passes
NextAccounts ==
    \/ \E data \in AccountLogins : login(data, FALSE)
    \/ \E c \in Callers, id \in 1..MaxUsers :
            nreq < MaxStatusRequests /\ deactivate_user(c, id)
    \/ \E c \in Callers, id \in 1..MaxUsers :
            nreq < MaxStatusRequests /\ activate_user(c, id)
    \/ Tick

SpecAccounts == InitSeeded /\ [][NextAccounts]_vars

\* requests to all the routes, in any order
Next ==
    \/ \E data \in GoodLogins :
            users_by_username(users, data["username"]) # {} /\ login(data, TRUE)
    \/ \E data \in CreateArticleInputs : nreq < MaxMixedRequests /\ create_article(data)
    \/ \E id \in 1..MaxArticles, data \in UpdateArticleInputs :
            nreq < MaxMixedRequests /\ update_article(id, data)
    \/ \E id \in 1..MaxArticles, fk \in BOOLEAN : nreq < MaxMixedRequests /\ delete_article(id, fk)
    \/ \E c \in Callers, data \in CreateUserInputs :
            nreq < MaxMixedRequests /\ users_create_user(c, data)
    \/ \E c \in Callers, data \in CreateUserInputs :
            nreq < MaxMixedRequests /\ auth_create_user(c, data)
    \/ \E c \in Callers, id \in 1..MaxUsers, data \in UpdateUserInputs :
            nreq < MaxMixedRequests /\ update_user(c, id, data)
    \/ \E c \in Callers, id \in 1..MaxUsers : nreq < MaxMixedRequests /\ deactivate_user(c, id)
    \/ \E c \in Callers, id \in 1..MaxUsers : nreq < MaxMixedRequests /\ activate_user(c, id)
    \/ \E c \in Callers, data \in CreateReportInputs :
            nreq < MaxMixedRequests /\ create_report(c, data)
    \/ \E c \in Callers, id \in 1..MaxReports, data \in UpdateReportInputs :
            nreq < MaxMixedRequests /\ update_report(c, id, data)
    \/ \E c \in Callers, id \in 1..MaxReports : nreq < MaxMixedRequests /\ delete_report(c, id)

Spec == InitSeeded /\ [][Next]_vars


-----------------------------------------------------------------------------
\* Properties

\* C1: a failed login that is at least the LockThreshold-th of its username's
\* run, less than LockWindow seconds after the run's first, is answered 429,
\* for existing and for unknown usernames alike
C1_FifthFailureLocked ==
    (/\ last.op = "login"
     /\ last.err \in {"no_user", "wrong_password", "locked"}
     /\ last.username \in DOMAIN streak
     /\ streak[last.username].n >= LockThreshold
     /\ now - streak[last.username].first < LockWindow)
    => last.status = 429

\* C2: the user store never holds more than one ADMIN
AdminIds == {i \in DOMAIN users : users[i].role = ADMIN}

C2_AtMostOneAdmin == Cardinality(AdminIds) <= 1

\* C3: user 1 keeps role ADMIN and status ACTIVO
C3_MainAdminKept ==
    /\ 1 \in DOMAIN users
    /\ users[1].role = ADMIN
    /\ users[1].status = ACTIVO

\* an update of user 1 was accepted, and requests to deactivate or demote it
\* are what the store has seen
C3_MainAdminUpdated ==
    /\ last.op = "update_user"
    /\ last.id = 1
    /\ last.status = 200
    /\ users[1].full_name = str_title(str_strip(F_new))

\* C4: every stored code is its own trimmed upper-case form, no two articles
\* share a code, and a create request whose normalized code is already stored
\* is answered 400 and stores nothing
C4_CodesNormalizedUnique ==
    /\ \A i \in DOMAIN articles :
         articles[i].code = str_upper(str_strip(articles[i].code))
    /\ \A i, j \in DOMAIN articles : articles[i].code = articles[j].code => i = j
    /\ \A data \in CreateArticleInputs :
         (/\ Truthy(Get(data, "code"))
          /\ \E i \in DOMAIN articles :
                articles[i].code = str_upper(str_strip(data["code"])))
         => LET run == create_article_run(articles, next_article_id, data)
            IN  run.status = 400 /\ Persisted(articles, run) = articles

\* a create request was refused for its code while an article is stored
C4_DuplicateRefused ==
    /\ last.op = "create_article"
    /\ last.status = 400
    /\ last.err = "code_exists"
    /\ \E i \in DOMAIN articles : articles[i].code = C_P01

\* C5: no two stored articles whose tipo contains "herramienta" have names
\* that are equal ignoring case
IsTool(a) ==
    a.tipo # None
    /\ str_contains(<<"h","e","r","r","a","m","i","e","n","t","a">>, str_lower(a.tipo))

C5_ToolNamesUnique ==
    \A i, j \in DOMAIN articles :
        (/\ i # j
         /\ IsTool(articles[i])
         /\ IsTool(articles[j]))
        => str_lower(articles[i].name) # str_lower(articles[j].name)

\* C6: every stored article has stock_min >= 0 and stock_current >= 0
C6_StockNonNegative ==
    \A i \in DOMAIN articles :
        articles[i].stock_min >= 0 /\ articles[i].stock_current >= 0

\* C7: an accepted update leaves the code, every field whose key the payload
\* lacks, and every other article as they were
ArticleFields == {"code", "name", "description", "tipo", "category", "unit",
                  "stock_min", "stock_current", "location", "status",
                  "acquisition_date", "observations"}

C7_UpdateKeepsAbsentFields ==
    [][(last'.op = "update_article" /\ last'.status = 200)
       => /\ DOMAIN articles' = DOMAIN articles
          /\ \A i \in DOMAIN articles \ {last'.id} : articles'[i] = articles[i]
          /\ articles'[last'.id].id = last'.id
          /\ articles'[last'.id].code = articles[last'.id].code
          /\ \A k \in ArticleFields \ last'.keys :
               articles'[last'.id][k] = articles[last'.id][k]]_vars

\* an accepted update changed the unit of an article and kept its name
C7_UnitUpdated ==
    /\ last.op = "update_article"
    /\ last.status = 200
    /\ \E i \in DOMAIN articles :
         /\ i = last.id
         /\ articles[i].unit = <<"k","g">>
         /\ articles[i].name = <<"P","u","m","p"," ","O","n","e">>
         /\ articles[i].stock_min = 0


\* C8: a request answered 400, 403, 404 or 500 leaves the user, article and
\* report stores as they were
ErrorStatuses == {400, 403, 404, 500}

C8_ErrorsLeaveStores ==
    [][last'.status \in ErrorStatuses
       => users' = users /\ articles' = articles /\ reports' = reports]_vars

\* an article update was refused for its date, a case in which the handler
\* had already assigned the fields before it
C8_UpdateRefusedForDate ==
    /\ last.op = "update_article"
    /\ last.status = 400
    /\ last.err = "date_format"
    /\ last.id \in DOMAIN articles

\* C9: a create-report request of an authenticated caller with article_id,
\* report_type and message present and no article of that id is answered 404
\* and stores nothing, whatever the report_type
C9_MissingArticleIs404 ==
    [][\A c \in Callers, data \in CreateReportInputs :
         (/\ last'.op = "create_report"
          /\ token_required(c, users, now) = 0
          /\ GetOr(data, "article_id", 0) # 0
          /\ Truthy(Get(data, "report_type"))
          /\ Truthy(Get(data, "message"))
          /\ data["article_id"] \notin DOMAIN articles
          /\ create_report(c, data))
         => last'.status = 404 /\ reports' = reports]_vars

\* a report for a missing article was refused while a report is stored
C9_Refused404 ==
    /\ last.op = "create_report"
    /\ last.status = 404
    /\ last.caller.kind = "jwt"
    /\ reports # EmptyStore

\* C10: a new report has status PENDIENTE, every stored status is one of the
\* four, and a report's status or admin_response changes, or the report goes
\* away, only in a request whose caller is a user with role ADMIN
CallerIsAdmin(resp, us) ==
    /\ resp.caller.kind = "jwt"
    /\ resp.caller.user_id \in DOMAIN us
    /\ us[resp.caller.user_id].role = ADMIN

C10_ReportLifecycle ==
    [][/\ \A i \in DOMAIN reports' \ DOMAIN reports : reports'[i].status = PENDIENTE
       /\ \A i \in DOMAIN reports' : reports'[i].status \in valid_statuses
       /\ (\E i \in DOMAIN reports :
              \/ i \notin DOMAIN reports'
              \/ reports'[i].status # reports[i].status
              \/ reports'[i].admin_response # reports[i].admin_response)
          => CallerIsAdmin(last', users)]_vars

\* the administrator resolved a report with a response
C10_ReportResolved ==
    /\ last.op = "update_report"
    /\ last.status = 200
    /\ \E i \in DOMAIN reports :
         /\ reports[i].status = RESUELTO
         /\ reports[i].admin_response = str_strip(R_done)


\* C11: a token returned by a successful login at time t expires at t + 24
\* hours, and the verify endpoint answers 200 for it at every time before its
\* expiry and 401 (expired) at every time after (a step that keeps the clock
\* is a request, answered at that time)
C11_TokenValidFor24h ==
    [][now' = now
       => /\ (last'.op = "login" /\ last'.status = 200)
             => /\ last'.caller.kind = "jwt"
                /\ last'.caller.exp = now + 24 * 60 * 60
          /\ (last'.op = "verify" /\ last'.caller.kind = "jwt")
             => /\ now < last'.caller.exp => last'.status = 200
                /\ now > last'.caller.exp
                   => last'.status = 401 /\ last'.err = "expired"]_vars

\* a token is refused as expired while the client holds a later one that is
\* still good, more than a day after the first login
C11_ExpiredWhileLaterValid ==
    /\ last.op = "verify"
    /\ last.status = 401
    /\ last.err = "expired"
    /\ now > last.caller.exp
    /\ \E tok \in tokens :
         tok.exp > now /\ verify_run(tok, users, now).status = 200

\* C12: an admin-only operation answers a request whose token is absent,
\* invalid or expired with 401 and one whose valid token has another role than
\* ADMIN with 403, and in both cases changes no store
AdminOps == {"users_create_user", "auth_create_user", "update_user",
             "deactivate_user", "activate_user", "update_report",
             "delete_report"}

C12_AdminGate ==
    [][last'.op \in AdminOps
       => /\ ~jwt_valid(last'.caller, now)
             => /\ last'.status = 401
                /\ users' = users /\ reports' = reports
          /\ (jwt_valid(last'.caller, now) /\ last'.caller.role # ADMIN)
             => /\ last'.status = 403
                /\ users' = users /\ reports' = reports]_vars

\* C13: an absent username and an existing one with a wrong password whose
\* trackers are in the same condition get the same status and the same
\* counter from a failed attempt
TrackerOf(fla, username) ==
    IF username \in DOMAIN fla THEN <<fla[username]>> ELSE <<>>

C13_AbsentLikeWrongPassword ==
    \A a \in LoginInputs, b \in LoginInputs :
        (/\ Truthy(Get(a, "username")) /\ Truthy(Get(a, "password"))
         /\ Truthy(Get(b, "username")) /\ Truthy(Get(b, "password"))
         /\ users_by_username(users, a["username"]) = {}
         /\ \E i \in users_by_username(users, b["username"]) :
               ~check_password_hash(users[i].password_hash, b["password"])
         /\ TrackerOf(failed_login_attempts, a["username"])
               = TrackerOf(failed_login_attempts, b["username"]))
        => LET ra == login_run(users, failed_login_attempts, now, a)
               rb == login_run(users, failed_login_attempts, now, b)
           IN  /\ ra.status = rb.status
               /\ TrackerOf(ra.fla, a["username"]) = TrackerOf(rb.fla, b["username"])

\* C14: a failed attempt that arrives more than LockWindow seconds after the
\* start of its username's window is answered 401 and leaves a stored count
\* of 1
FailedAttempt(resp) ==
    resp.op = "login" /\ resp.err \in {"no_user", "wrong_password"}

C14_ExpiredWindowRestarts ==
    [][(/\ now' = now
        /\ FailedAttempt(last')
        /\ last'.username \in DOMAIN failed_login_attempts
        /\ now - failed_login_attempts[last'.username].timestamp > 900)
       => /\ last'.status = 401
          /\ failed_login_attempts'[last'.username].count = 1]_vars

\* C15: no request removes a user, and an accepted DELETE of a user other
\* than user 1 sets that user's status to INACTIVO and changes nothing else in
\* the user store
C15_UsersNeverRemoved ==
    [][/\ DOMAIN users \subseteq DOMAIN users'
       /\ (last'.op = "deactivate_user" /\ last'.status = 200)
          => /\ last'.id # 1
             /\ last'.id \in DOMAIN users
             /\ users'[last'.id].status = INACTIVO
             /\ users'[last'.id].username = users[last'.id].username
             /\ users'[last'.id].email = users[last'.id].email
             /\ users'[last'.id].role = users[last'.id].role
             /\ users'[last'.id].password_hash = users[last'.id].password_hash
             /\ \A i \in DOMAIN users \ {last'.id} : users'[i] = users[i]]_vars

\* user 2 was deactivated and is still stored
C15_BobDeactivated ==
    /\ last.op = "deactivate_user"
    /\ last.status = 200
    /\ last.id = 2
    /\ 2 \in DOMAIN users
    /\ users[2].status = INACTIVO
    /\ users[2].username = U_bob

\* C16 as claimed: while a user's status is INACTIVO a login for it returns no
\* token and does not touch the user store; with the right password it is
\* answered 403, with a wrong one 401 or 429
IsInactive(us, username) ==
    \E i \in users_by_username(us, username) : us[i].status = INACTIVO

RightPassword(us, data) ==
    \E i \in users_by_username(us, data["username"]) :
        check_password_hash(us[i].password_hash, data["password"])

C17_UserNamesNormalizedUnique ==
    /\ \A i \in DOMAIN users :
         /\ users[i].username = str_lower(str_strip(users[i].username))
         /\ users[i].email = str_lower(str_strip(users[i].email))
    /\ \A i, j \in DOMAIN users :
         (\/ str_lower(str_strip(users[i].username))
               = str_lower(str_strip(users[j].username))
          \/ str_lower(str_strip(users[i].email))
               = str_lower(str_strip(users[j].email)))
         => i = j

\* C18 as claimed: PUT /api/users/1 with {"role": "USER"} and a valid token
\* whose role is not ADMIN is answered 400 and leaves the user store as it was
DemoteMainAdmin == [role |-> USER]

C18_NonAdminDemotionIs400 ==
    [][\A c \in Callers :
         (/\ last'.op = "update_user"
          /\ jwt_valid(c, now)
          /\ c.role # ADMIN
          /\ update_user(c, 1, DemoteMainAdmin))
         => last'.status = 400 /\ users' = users]_vars

\* C18 as amended: the request is answered 403 when the valid token's role is
\* not ADMIN and 400 when it is ADMIN, and leaves the user store as it was
C18_DemotionRefused ==
    [][\A c \in Callers :
         (/\ last'.op = "update_user"
          /\ jwt_valid(c, now)
          /\ update_user(c, 1, DemoteMainAdmin))
         => /\ last'.status = IF c.role = ADMIN THEN 400 ELSE 403
            /\ users' = users]_vars

\* an operator's PUT for user 1 was stopped at the gate
C18_OperatorStoppedAtGate ==
    /\ last.op = "update_user"
    /\ last.id = 1
    /\ last.caller.kind = "jwt"
    /\ last.caller.role = USER
    /\ last.status = 403
    /\ users[1].role = ADMIN

\* C19: while a username's stored count is at least 5 and less than 900
\* seconds have passed since its window started, a login for it with username
\* and password, right or wrong, is answered 429, returns no token and leaves
\* the user store and the failure tracker as they were
C19_LockedLoginIs429 ==
    [][\A data \in AccountLogins :
         (/\ last'.op = "login"
          /\ Truthy(Get(data, "username")) /\ Truthy(Get(data, "password"))
          /\ data["username"] \in DOMAIN failed_login_attempts
          /\ failed_login_attempts[data["username"]].count >= 5
          /\ now - failed_login_attempts[data["username"]].timestamp < 900
          /\ login(data, FALSE))
         => /\ last'.status = 429
            /\ last'.caller.kind # "jwt"
            /\ users' = users
            /\ failed_login_attempts' = failed_login_attempts]_vars

\* the active operator was refused while locked out
C19_ActiveOperatorLockedOut ==
    /\ last.op = "login"
    /\ last.status = 429
    /\ last.err = "locked"
    /\ last.username = U_bob
    /\ ~IsInactive(users, U_bob)
    /\ RightPassword(users, [username |-> U_bob, password |-> P_bob])
    /\ failed_login_attempts[U_bob].count >= 5


=============================================================================
